---- MODULE Spec2Model ----
(***************************************************************************)
(* Model of ibre, the in-browser routing engine: the Router (segments,     *)
(* connectors, nearest-segment lookup, A*-style search and route           *)
(* reconstruction), the RouteSegment geometry cut, and the                 *)
(* CachedTileNetwork that rebuilds a Router from an LRU of tiles.          *)
(*                                                                         *)
(* Geometry is exact: points are pairs of integers, polylines are          *)
(* axis-parallel, so every Euclidean length of a polyline piece is an      *)
(* integer and every fractional position is a ratio num/den of integers    *)
(* (den = the polyline's length).  The heuristic of the search is the      *)
(* Euclidean distance between arbitrary points, kept in thousandths as     *)
(* the priority quantisation of the code does.                             *)
(***************************************************************************)
EXTENDS Integers, Sequences, FiniteSets, TLC

VARIABLES
    segments,    \* Router.segments: Vec<Segment>
    connectors,  \* Router.connectors: Vec<Connector>
    query,       \* arguments of the last Router::find_route call, or NoQuery
    result,      \* what that call returned, or NoResult
    previous,    \* what the call before it returned, when it had the same
                 \* arguments and the same router; NoResult otherwise
    tiles,       \* CachedTileNetwork.tiles: LruCache, most recently used first
    netRouter,   \* CachedTileNetwork.router
    call,        \* the CachedTileNetwork::find_route call in progress
    cutSegment,  \* the RouteSegment last given to get_cutted_geometry
    cutGeometry, \* the coordinates it returned, or NoGeometry
    layer,       \* the connectors layer given to parse_connectors, and what
                 \* the call pushed and returned once it is done
    search       \* a Router::find_route call taken one loop iteration at a
                 \* time: its connector_map and to_visit, and the way back

vars == <<segments, connectors, query, result, previous, tiles, netRouter,
          call, cutSegment, cutGeometry, layer, search>>

routerVars == <<segments, connectors, query, result, previous>>
cacheVars == <<tiles, netRouter, call>>
cutVars == <<cutSegment, cutGeometry>>
parseVars == <<layer>>
searchVars == <<search>>

-----------------------------------------------------------------------------
(* Geometry: geo_types::Point, geo_types::LineString and the geo crate      *)
(* operations the router calls on them.                                     *)

Abs(n) == IF n < 0 THEN -n ELSE n

Min(a, b) == IF a <= b THEN a ELSE b

Max(a, b) == IF a >= b THEN a ELSE b

Point(x, y) == <<x, y>>

\* The function f with its values computed once (a table, as a HashMap
\* holds its entries) rather than on every application.
Table(f) == f @@ <<>>

\* The element of a singleton set.  A value that is computed once and used
\* several times is bound as x in The({e(x) : x \in {value}}).
The(S) == CHOOSE x \in S : TRUE

\* (p - q) . (p - q)
SquaredDistance(p, q) ==
    (p[1] - q[1]) * (p[1] - q[1]) + (p[2] - q[2]) * (p[2] - q[2])

\* Line::euclidean_length of the piece from a to b; the pieces are
\* axis-parallel, so the square root is the integer |dx| + |dy|.
LineLength(a, b) ==
    LET d2 == SquaredDistance(a, b)
        r == Abs(a[1] - b[1]) + Abs(a[2] - b[2])
    IN  CHOOSE l \in {r} : l * l = d2

\* The pieces (geo: LineString::lines) of a polyline: piece i joins vertex i
\* and vertex i + 1.
NumLines(ls) == IF Len(ls) = 0 THEN 0 ELSE Len(ls) - 1

RECURSIVE LengthUpTo(_, _)
\* Sum of the lengths of the first n pieces.
LengthUpTo(ls, n) ==
    IF n = 0 THEN 0 ELSE LengthUpTo(ls, n - 1) + LineLength(ls[n], ls[n + 1])

\* LineString::euclidean_length
EuclideanLength(ls) == LengthUpTo(ls, NumLines(ls))

\* Line::line_locate_point, times the piece's length: the arc length from
\* a to the foot of p on the piece a-b, l = clamp((v . sp) / (v . v), 0, 1).
LineLocateOffset(a, b, p) ==
    LET len == LineLength(a, b)
        vDotSp == (b[1] - a[1]) * (p[1] - a[1]) + (b[2] - a[2]) * (p[2] - a[2])
    IN  IF len = 0 THEN 0
        ELSE Max(0, Min(len, vDotSp \div len))

\* The point at arc length off from a on the piece a-b.
LinePointAt(a, b, off) ==
    LET len == LineLength(a, b)
    IN  IF len = 0 THEN a
        ELSE Point(a[1] + ((b[1] - a[1]) \div len) * off,
                   a[2] + ((b[2] - a[2]) \div len) * off)

\* Squared Line::euclidean_distance from the piece a-b to p.
LineSquaredDistance(a, b, p) ==
    SquaredDistance(LinePointAt(a, b, LineLocateOffset(a, b, p)), p)

\* Squared LineString::euclidean_distance: the least over the pieces.
LineStringSquaredDistance(ls, p) ==
    LET ds == {LineSquaredDistance(ls[i], ls[i + 1], p) : i \in 1..NumLines(ls)}
    IN  CHOOSE d \in ds : \A e \in ds : d <= e

\* LineString::line_locate_point as the arc length of the located point:
\* the first piece at the least distance wins (the update is on a strict <).
LineLocateArc(ls, p) ==
    LET d == LineStringSquaredDistance(ls, p)
    IN  The({LengthUpTo(ls, i - 1) + LineLocateOffset(ls[i], ls[i + 1], p) :
                 i \in {j \in 1..NumLines(ls) :
                           /\ LineSquaredDistance(ls[j], ls[j + 1], p) = d
                           /\ \A k \in 1..(j - 1) :
                                  LineSquaredDistance(ls[k], ls[k + 1], p)
                                      # d}})

\* A fractional position num/den along a polyline.
Fraction(n, d) == [num |-> n, den |-> d]

FracZero(f) == f.num = 0

FracOne(f) == f.num = f.den

FracLess(f, g) == f.num * g.den < g.num * f.den

FracLeq(f, g) == f.num * g.den <= g.num * f.den

\* LineString::line_locate_point: Some(0) on a polyline of length zero.
LineLocatePoint(ls, p) ==
    LET total == EuclideanLength(ls)
    IN  IF total = 0 THEN Fraction(0, 1)
        ELSE Fraction(LineLocateArc(ls, p), total)

\* LineString::line_interpolate_point: the point on the first piece whose
\* end is at or beyond the fractional length; fractions outside [0, 1] are
\* clamped.
LineInterpolatePoint(ls, f) ==
    LET total == EuclideanLength(ls)
        g == IF f.num < 0 THEN Fraction(0, 1)
             ELSE IF f.num > f.den THEN Fraction(1, 1) ELSE f
        fl == (total * g.num) \div g.den
    IN  The({LinePointAt(ls[i], ls[i + 1], fl - LengthUpTo(ls, i - 1)) :
                 i \in {j \in 1..NumLines(ls) :
                           /\ LengthUpTo(ls, j) >= fl
                           /\ \A k \in 1..(j - 1) : LengthUpTo(ls, k) < fl}})

\* LineString::closest_point: an intersection (distance 0) on the first
\* piece that has one; otherwise the foot on the last piece at the least
\* distance (best_of_two keeps the later piece on a tie).
ClosestPoint(ls, p) ==
    LET d == LineStringSquaredDistance(ls, p)
        near == {j \in 1..NumLines(ls) :
                     LineSquaredDistance(ls[j], ls[j + 1], p) = d}
    IN  The({LinePointAt(ls[i], ls[i + 1],
                         LineLocateOffset(ls[i], ls[i + 1], p)) :
                 i \in {j \in near : IF d = 0 THEN \A k \in near : j <= k
                                      ELSE \A k \in near : j >= k}})

-----------------------------------------------------------------------------
(* routing::router: Connector, Segment, Router.                             *)

Connector(id, point) == [id |-> id, point |-> point]

Segment(id, geometry, conns) ==
    [id |-> id, geometry |-> geometry, connectors |-> conns]

\* Segment::get_point_position
GetPointPosition(segment, point) == LineLocatePoint(segment.geometry, point)

StartId == "#start"

StopId == "#stop"

\* No connector, as Option::None of previous_connector.
NoneId == "None"

\* No distance yet, as Option::None of distance.
NoDistance == -1

\* The order of String::cmp (byte-wise lexicographic) on the connector ids
\* that occur, least first.
ByteOrder == <<"!", "#start", "#stop", "a", "b", "c", "d">>

IdRank(id) == CHOOSE i \in 1..Len(ByteOrder) : ByteOrder[i] = id

\* Router::find_nearest: the index of the first segment at the least
\* distance (a later segment replaces the candidate only on a strict <) and
\* the position of the closest point on it; 0 when there is no segment.
\* find_nearest, were a segment as near as the nearest so far to replace
\* it (`<=` for `<`): the last of the nearest segments.
FindNearestIndexLast(segs, point) ==
    IF Len(segs) = 0 THEN 0
    ELSE LET d(i) == LineStringSquaredDistance(segs[i].geometry, point)
         IN  CHOOSE i \in 1..Len(segs) :
                 /\ \A j \in 1..Len(segs) : d(i) <= d(j)
                 /\ \A j \in (i + 1)..Len(segs) : d(j) # d(i)

FindNearestIndex(segs, point) ==
    IF Len(segs) = 0 THEN 0
    ELSE LET d(i) == LineStringSquaredDistance(segs[i].geometry, point)
         IN  CHOOSE i \in 1..Len(segs) :
                 /\ \A j \in 1..Len(segs) : d(i) <= d(j)
                 /\ \A j \in 1..(i - 1) : d(j) # d(i)

\* The position of the point of a polyline closest to a point.
ClosestPosition(ls, point) ==
    The({LineLocatePoint(ls, closest) : closest \in {ClosestPoint(ls, point)}})

FindNearestPosition(segs, point) ==
    The({ClosestPosition(segs[i].geometry, point) :
             i \in {FindNearestIndex(segs, point)}})

\* SegmentWithPosition::get_position_as_point
GetPositionAsPoint(segment, position) ==
    LineInterpolatePoint(segment.geometry, position)

\* The keys of connector_map in Router::build_maps.
ConnectorMapKeys(conns) ==
    {conns[i].id : i \in 1..Len(conns)} \cup {StartId, StopId}

\* The connector a key of connector_map stands for: the synthetic endpoints
\* are inserted last, and a later insert replaces an earlier one.
ConnectorPoint(conns, startPoint, stopPoint, id) ==
    IF id = StartId THEN startPoint
    ELSE IF id = StopId THEN stopPoint
    ELSE LET i == CHOOSE j \in 1..Len(conns) :
                      /\ conns[j].id = id
                      /\ \A k \in (j + 1)..Len(conns) : conns[k].id # id
         IN  conns[i].point

\* The connector id list build_maps works with for one segment: its own
\* list, then #start and #stop when its id is the id of the start or stop
\* segment.
SegmentConnectorList(segment, startSegment, stopSegment) ==
    segment.connectors
        \o (IF segment.id = startSegment.id THEN <<StartId>> ELSE <<>>)
        \o (IF segment.id = stopSegment.id THEN <<StopId>> ELSE <<>>)

RECURSIVE NeighboursOfWholeList(_, _, _, _, _)
\* The inner loops of build_maps, were a segment that lists an unknown
\* connector id left out of the graph altogether.
NeighboursOfWholeList(list, keys, si, id, j) ==
    IF j > Len(list) \/ \E k \in 1..Len(list) : list[k] \notin keys
    THEN <<>>
    ELSE (IF list[j] = id
          THEN LET others == SelectSeq(list, LAMBDA x : x # id)
               IN  [k \in 1..Len(others) |->
                        [connector |-> others[k], segment |-> si]]
          ELSE <<>>)
         \o NeighboursOfWholeList(list, keys, si, id, j + 1)

RECURSIVE NeighboursOfList(_, _, _, _, _)
\* What one pass of the inner loops of build_maps over a segment (index si,
\* connector list list, from position j on) appends to the neighbours of id.
NeighboursOfList(list, keys, si, id, j) ==
    IF j > Len(list) THEN <<>>
    ELSE (IF list[j] = id /\ id \in keys
          THEN LET others == SelectSeq(list, LAMBDA x : x # id /\ x \in keys)
               IN  [k \in 1..Len(others) |->
                        [connector |-> others[k], segment |-> si]]
          ELSE <<>>)
         \o NeighboursOfList(list, keys, si, id, j + 1)

RECURSIVE NeighboursFrom(_, _, _, _, _, _)
\* ConnectorData.neighbours of id after build_maps, segments si.. onwards.
NeighboursFrom(segs, keys, startSegment, stopSegment, id, si) ==
    IF si > Len(segs) THEN <<>>
    ELSE NeighboursOfList(
             SegmentConnectorList(segs[si], startSegment, stopSegment),
             keys, si, id, 1)
         \o NeighboursFrom(segs, keys, startSegment, stopSegment, id, si + 1)

\* Router::build_maps: connector_map, as the record of its four columns.
BuildMaps(segs, conns, startIndex, stopIndex) ==
    LET keys == ConnectorMapKeys(conns)
    IN  [distance |-> [id \in keys |-> NoDistance],
         neighbours |-> Table([id \in keys |->
             NeighboursFrom(segs, keys, segs[startIndex], segs[stopIndex],
                            id, 1)]),
         previous_segment |-> [id \in keys |-> startIndex],
         previous_connector |-> [id \in keys |-> NoneId]]

-----------------------------------------------------------------------------
(* Router::find_route: the search.                                          *)

\* The heuristic is tabulated for the squared distances up to
\* 2 * GridMax * GridMax, those of the points with coordinates in 0..GridMax.
GridMax == 8

\* Priority quantization: f is scaled by 1000 and rounded.
PriorityScale == 1000

\* round(PriorityScale * sqrt(d2)) for every squared distance on the grid.
ScaledRoot ==
    [d2 \in 0..(2 * GridMax * GridMax) |->
        LET f == CHOOSE r \in 0..(2 * GridMax) :
                     r * r <= d2 /\ d2 < (r + 1) * (r + 1)
        IN  CHOOSE r \in (PriorityScale * f)..(PriorityScale * (f + 1)) :
                /\ \/ r = 0
                   \/ (2 * r - 1) * (2 * r - 1)
                          <= 4 * PriorityScale * PriorityScale * d2
                /\ 4 * PriorityScale * PriorityScale * d2
                       < (2 * r + 1) * (2 * r + 1)]

\* (priority * 1000.0).round() for priority = new_distance + the Euclidean
\* distance from the neighbour's point to the point of #stop.
ToVisitCost(newDistance, point, stopPoint) ==
    PriorityScale * newDistance + ScaledRoot[SquaredDistance(point, stopPoint)]

ToVisitState(cost, id) == [cost |-> cost, connector_id |-> id]

\* ToVisitState::cmp without `then_with`: entries of equal cost compare
\* Equal whatever their connector ids.
CmpCostOnly(self, other) ==
    IF other.cost < self.cost THEN "Less"
    ELSE IF other.cost > self.cost THEN "Greater"
    ELSE "Equal"

\* ToVisitState::cmp: the order on costs flipped, then the connector ids.
CmpToVisitState(self, other) ==
    IF other.cost < self.cost THEN "Less"
    ELSE IF other.cost > self.cost THEN "Greater"
    ELSE IF IdRank(self.connector_id) < IdRank(other.connector_id) THEN "Less"
    ELSE IF IdRank(self.connector_id) > IdRank(other.connector_id)
         THEN "Greater"
    ELSE "Equal"

\* BinaryHeap::pop returns a greatest entry; which one of several entries
\* that compare Equal is not specified.
PopChoices(toVisit) ==
    {toVisit[i] : i \in {j \in 1..Len(toVisit) :
        \A k \in 1..Len(toVisit) :
            CmpToVisitState(toVisit[j], toVisit[k]) # "Less"}}

\* The heap without one occurrence of entry e.
RemoveEntry(toVisit, e) ==
    LET i == CHOOSE j \in 1..Len(toVisit) : toVisit[j] = e
    IN  SubSeq(toVisit, 1, i - 1) \o SubSeq(toVisit, i + 1, Len(toVisit))

\* The loop body with the test on the old distance turned around: a
\* neighbour without a distance is skipped as well.
RelaxSkippingUnvisited(st, segs, pointOf, visiting, vDistance, nb) ==
    LET newDistance == vDistance + EuclideanLength(segs[nb.segment].geometry)
        cost == ToVisitCost(newDistance, pointOf[nb.connector], pointOf[StopId])
        old == st.distance[nb.connector]
    IN  IF old = NoDistance \/ old <= newDistance THEN st
        ELSE [distance |-> [st.distance EXCEPT ![nb.connector] = newDistance],
              neighbours |-> st.neighbours,
              previous_segment |->
                  [st.previous_segment EXCEPT ![nb.connector] = nb.segment],
              previous_connector |->
                  [st.previous_connector EXCEPT ![nb.connector] = visiting],
              to_visit |-> Append(st.to_visit,
                                  ToVisitState(cost, nb.connector))]

\* The loop body with `<` for `<=` in the test on the old distance: a
\* neighbour reached again at its distance is pushed again.
RelaxAlsoOnEqual(st, segs, pointOf, visiting, vDistance, nb) ==
    LET newDistance == vDistance + EuclideanLength(segs[nb.segment].geometry)
        cost == ToVisitCost(newDistance, pointOf[nb.connector], pointOf[StopId])
        old == st.distance[nb.connector]
    IN  IF old # NoDistance /\ old < newDistance THEN st
        ELSE [distance |-> [st.distance EXCEPT ![nb.connector] = newDistance],
              neighbours |-> st.neighbours,
              previous_segment |->
                  [st.previous_segment EXCEPT ![nb.connector] = nb.segment],
              previous_connector |->
                  [st.previous_connector EXCEPT ![nb.connector] = visiting],
              to_visit |-> Append(st.to_visit,
                                  ToVisitState(cost, nb.connector))]

\* One pass of the body of `for neighbour in &visiting_data.neighbours` for
\* a neighbour nb of the connector visiting, whose distance is vDistance.
Relax(st, segs, pointOf, visiting, vDistance, nb) ==
    LET newDistance == vDistance + EuclideanLength(segs[nb.segment].geometry)
        cost == ToVisitCost(newDistance, pointOf[nb.connector], pointOf[StopId])
        old == st.distance[nb.connector]
    IN  IF old # NoDistance /\ old <= newDistance THEN st
        ELSE [distance |-> [st.distance EXCEPT ![nb.connector] = newDistance],
              neighbours |-> st.neighbours,
              previous_segment |->
                  [st.previous_segment EXCEPT ![nb.connector] = nb.segment],
              previous_connector |->
                  [st.previous_connector EXCEPT ![nb.connector] = visiting],
              to_visit |-> Append(st.to_visit,
                                  ToVisitState(cost, nb.connector))]

RECURSIVE RelaxAll(_, _, _, _, _, _, _)
\* The whole for loop over the neighbours nbs of visiting, from the k-th on.
RelaxAll(st, segs, pointOf, visiting, vDistance, nbs, k) ==
    IF k > Len(nbs) THEN st
    ELSE The({RelaxAll(next, segs, pointOf, visiting, vDistance, nbs, k + 1) :
                  next \in {Relax(st, segs, pointOf, visiting, vDistance,
                                  nbs[k])}})

RECURSIVE SearchLoop(_, _, _)
\* The body of the while loop once the entry of the connector visiting was
\* popped, rest being the maps without that entry, and the iterations that
\* follow it.
Visit(rest, segs, pointOf, visiting) ==
    IF visiting = StopId THEN {rest}
    ELSE UNION {SearchLoop(next, segs, pointOf) :
                    next \in {RelaxAll(rest, segs, pointOf, visiting,
                                       rest.distance[visiting],
                                       rest.neighbours[visiting], 1)}}

\* `while to_visit.len() > 0`: the connector maps the loop can end with.
SearchLoop(st, segs, pointOf) ==
    IF Len(st.to_visit) = 0 THEN {st}
    ELSE UNION {Visit([st EXCEPT !.to_visit = RemoveEntry(st.to_visit, e)],
                      segs, pointOf, e.connector_id) :
                    e \in PopChoices(st.to_visit)}

-----------------------------------------------------------------------------
(* Router::find_route: reconstruction of the route.                         *)

RouteSegment(segment, start, stop) ==
    [segment |-> segment, start |-> start, stop |-> stop]

Ok(stops, routeSegments) ==
    [kind |-> "Ok", stops |-> stops, segments |-> routeSegments]

Err(error) == [kind |-> "Err", error |-> error]

Reverse(s) == [i \in 1..Len(s) |-> s[Len(s) + 1 - i]]

RECURSIVE WayBack(_, _, _, _)
\* The `loop` that walks back from the connector current, which has a
\* previous connector: the route segments pushed, last hop first.
WayBack(st, segs, pointOf, current) ==
    LET prev == st.previous_connector[current]
        seg == segs[st.previous_segment[current]]
        rs == RouteSegment(seg,
                           GetPointPosition(seg, pointOf[prev]),
                           GetPointPosition(seg, pointOf[current]))
    IN  IF st.previous_connector[prev] = NoneId THEN <<rs>>
        ELSE <<rs>> \o WayBack(st, segs, pointOf, prev)

\* `route_segments.pop()` and the push that follows it: the segment pushed
\* last, the first hop, gets the start position as its start.
FirstHopFromStart(back, startPosition) ==
    SubSeq(back, 1, Len(back) - 1)
        \o <<RouteSegment(back[Len(back)].segment, startPosition,
                          back[Len(back)].stop)>>

\* BuildRoute with the snapped points of #start and #stop as the stops.
BuildRouteSnappedStops(st, segs, pointOf, startPosition, start, stop) ==
    IF st.previous_connector[StopId] = NoneId THEN Err("CouldNotFindRoute")
    ELSE The({Ok(<<pointOf[StartId], pointOf[StopId]>>,
                 Reverse(FirstHopFromStart(back, startPosition))) :
                  back \in {WayBack(st, segs, pointOf, StopId)}})

\* The route find_route returns for the connector map st the search ended
\* with: the first hop's start is replaced by the start position.
BuildRoute(st, segs, pointOf, startPosition, start, stop) ==
    IF st.previous_connector[StopId] = NoneId THEN Err("CouldNotFindRoute")
    ELSE The({Ok(<<start, stop>>,
                 Reverse(FirstHopFromStart(back, startPosition))) :
                  back \in {WayBack(st, segs, pointOf, StopId)}})

\* The point of every key of connector_map; those of #start and #stop are
\* the snapped points.
ConnectorPoints(segs, conns, startIndex, startPosition, stopIndex, stopPosition) ==
    Table([id \in ConnectorMapKeys(conns) |->
        ConnectorPoint(conns,
                       GetPositionAsPoint(segs[startIndex], startPosition),
                       GetPositionAsPoint(segs[stopIndex], stopPosition),
                       id)])

\* The connector maps when the search loop is entered: #start is at
\* distance 0 and is the one entry of the heap.
StartOfSearch(maps) ==
    [distance |-> [maps.distance EXCEPT ![StartId] = 0],
     neighbours |-> maps.neighbours,
     previous_segment |-> maps.previous_segment,
     previous_connector |-> maps.previous_connector,
     to_visit |-> <<ToVisitState(0, StartId)>>]

\* Router::find_route from build_maps on, for the segments and positions
\* find_nearest returned for start and stop.
FindRouteBetween(segs, conns, start, stop, startIndex, startPosition, stopIndex, stopPosition) ==
    UNION {{BuildRoute(st, segs, pointOf, startPosition, start, stop) :
                st \in SearchLoop(StartOfSearch(maps), segs, pointOf)} :
               pointOf \in {ConnectorPoints(segs, conns, startIndex,
                                            startPosition, stopIndex,
                                            stopPosition)},
               maps \in {BuildMaps(segs, conns, startIndex, stopIndex)}}

\* Router::find_route past its first check, on a router that holds at least
\* one segment: the set of values it can return.
FindRouteOnSegments(segs, conns, start, stop) ==
    UNION {FindRouteBetween(segs, conns, start, stop, startIndex,
                            startPosition, stopIndex, stopPosition) :
               startIndex \in {FindNearestIndex(segs, start)},
               startPosition \in {FindNearestPosition(segs, start)},
               stopIndex \in {FindNearestIndex(segs, stop)},
               stopPosition \in {FindNearestPosition(segs, stop)}}

\* find_route without a result of its own for the router without segments.
FindRouteNoRouteWhenEmpty(segs, conns, start, stop) ==
    IF Len(segs) = 0 THEN {Err("CouldNotFindRoute")}
    ELSE FindRouteOnSegments(segs, conns, start, stop)

\* Router::find_route(start, stop) on a router holding segs and conns: the
\* set of values it can return.
FindRoute(segs, conns, start, stop) ==
    IF Len(segs) = 0 THEN {Err("MissingSegments")}
    ELSE FindRouteOnSegments(segs, conns, start, stop)

-----------------------------------------------------------------------------
(* routing::route: RouteSegment::get_cutted_geometry.                       *)

\* get_cutted_geometry, were the interpolated points added according to the
\* ordered bounds instead of self.start and self.stop.
GetCuttedGeometryByOrderedBounds(rs) ==
    LET linestring == rs.segment.geometry
        swap == FracLess(rs.stop, rs.start)
        start == IF swap THEN rs.stop ELSE rs.start
        stop == IF swap THEN rs.start ELSE rs.stop
        startingPoint == LineInterpolatePoint(linestring, start)
        stoppingPoint == LineInterpolatePoint(linestring, stop)
        filtered == SelectSeq(linestring,
            LAMBDA coord :
                LET position == LineLocatePoint(linestring, coord)
                IN  FracLeq(start, position) /\ FracLeq(position, stop))
    IN  (IF ~FracZero(start) THEN <<startingPoint>> ELSE <<>>)
            \o filtered
            \o (IF ~FracOne(stop) THEN <<stoppingPoint>> ELSE <<>>)

\* RouteSegment::get_cutted_geometry: the vertices whose position lies
\* between the ordered bounds, with the interpolated point of the lower
\* bound put in front unless self.start is 0 and the interpolated point of
\* the upper bound appended unless self.stop is 1.
GetCuttedGeometry(rs) ==
    LET linestring == rs.segment.geometry
        swap == FracLess(rs.stop, rs.start)
        start == IF swap THEN rs.stop ELSE rs.start
        stop == IF swap THEN rs.start ELSE rs.stop
        startingPoint == LineInterpolatePoint(linestring, start)
        stoppingPoint == LineInterpolatePoint(linestring, stop)
        filtered == SelectSeq(linestring,
            LAMBDA coord :
                LET position == LineLocatePoint(linestring, coord)
                IN  FracLeq(start, position) /\ FracLeq(position, stop))
    IN  (IF ~FracZero(rs.start) THEN <<startingPoint>> ELSE <<>>)
            \o filtered
            \o (IF ~FracOne(rs.stop) THEN <<stoppingPoint>> ELSE <<>>)

-----------------------------------------------------------------------------
(* The Router as a state machine: Router::new, push_segment,                *)
(* push_connector, find_route.                                              *)

\* At most this many segments and connectors are pushed.
MaxSegments == 4

MaxConnectors == 3

\* The segments that can be pushed.  Segment ids are not checked for
\* uniqueness: the first and the last share the id "1".
SegmentCatalogue ==
    <<Segment("1", <<Point(0, 0), Point(2, 0)>>, <<"a">>),
      Segment("2", <<Point(2, 0), Point(4, 0)>>, <<"a", "b">>),
      Segment("3", <<Point(2, 0), Point(2, 1), Point(4, 1)>>, <<"a", "c">>),
      Segment("4", <<Point(6, 0), Point(4, 0), Point(4, 1)>>,
              <<"b", "c", "d">>),
      Segment("1", <<Point(5, 1), Point(6, 1)>>, <<"c">>)>>

\* The connectors that can be pushed; "b" comes at two places.
ConnectorCatalogue ==
    <<Connector("a", Point(2, 0)),
      Connector("b", Point(4, 0)),
      Connector("b", Point(0, 0)),
      Connector("c", Point(4, 1))>>

\* The records of a catalogue are pushed in the order of the catalogue:
\* entry i can be pushed after the entries pushed so far when all of them
\* come before it.
CanPush(catalogue, pushed, i) ==
    \A j \in 1..Len(catalogue) :
        (\E k \in 1..Len(pushed) : pushed[k] = catalogue[j]) => j < i

\* The points find_route is asked about.
QueryPoints == {Point(0, 0), Point(6, 0), Point(3, 1)}

NoQuery == <<>>

NoResult == [kind |-> "None"]

NoSegment == [kind |-> "None"]

NoGeometry == <<>>

Range(s) == {s[i] : i \in 1..Len(s)}

\* Router::new
NewRouter == [segments |-> <<>>, connectors |-> <<>>]

RouterInit ==
    /\ segments = NewRouter.segments
    /\ connectors = NewRouter.connectors
    /\ query = NoQuery
    /\ result = NoResult
    /\ previous = NoResult

CacheIdle ==
    /\ tiles = <<>>
    /\ netRouter = NewRouter
    /\ call = [pc |-> "idle"]

CutIdle ==
    /\ cutSegment = NoSegment
    /\ cutGeometry = NoGeometry

ParseIdle == layer = [pc |-> "idle"]

SearchIdle == search = [pc |-> "idle"]

Init == RouterInit /\ CacheIdle /\ CutIdle /\ ParseIdle /\ SearchIdle

\* Router::push_segment
PushSegment(i) ==
    /\ Len(segments) < MaxSegments
    /\ CanPush(SegmentCatalogue, segments, i)
    /\ segments' = Append(segments, SegmentCatalogue[i])
    /\ query' = NoQuery
    /\ result' = NoResult
    /\ previous' = NoResult
    /\ UNCHANGED <<connectors, cacheVars, cutVars, parseVars, searchVars>>

\* Router::push_connector
PushConnector(i) ==
    /\ Len(connectors) < MaxConnectors
    /\ CanPush(ConnectorCatalogue, connectors, i)
    /\ connectors' = Append(connectors, ConnectorCatalogue[i])
    /\ query' = NoQuery
    /\ result' = NoResult
    /\ previous' = NoResult
    /\ UNCHANGED <<segments, cacheVars, cutVars, parseVars, searchVars>>

\* Router::find_route(&self, start, stop)
RouterFindRoute(start, stop) ==
    /\ query' = <<start, stop>>
    /\ result' \in FindRoute(segments, connectors, start, stop)
    /\ previous' = IF query = <<start, stop>> THEN result ELSE NoResult
    /\ UNCHANGED <<segments, connectors, cacheVars, cutVars, parseVars, searchVars>>

Next ==
    \/ \E i \in 1..Len(SegmentCatalogue) : PushSegment(i)
    \/ \E i \in 1..Len(ConnectorCatalogue) : PushConnector(i)
    \/ \E start \in QueryPoints, stop \in QueryPoints :
           RouterFindRoute(start, stop)

Spec == Init /\ [][Next]_vars

-----------------------------------------------------------------------------
(* The connector graph of a query, for the statements about the search.    *)

\* The last query was answered and nothing was pushed since.
Answered == result # NoResult

\* connector_map as build_maps leaves it for the last query.
QueryMaps ==
    BuildMaps(segments, connectors,
              FindNearestIndex(segments, query[1]),
              FindNearestIndex(segments, query[2]))

\* The least cost of a path of at most n edges from #start to each
\* connector of the graph g, NoDistance where there is none; an edge costs
\* the full length of its segment.
RECURSIVE LeastCost(_, _, _)
LeastCost(g, segs, n) ==
    IF n = 0
    THEN Table([id \in DOMAIN g.neighbours |->
                    IF id = StartId THEN 0 ELSE NoDistance])
    ELSE LET before == LeastCost(g, segs, n - 1)
             reached == {v \in DOMAIN g.neighbours : before[v] # NoDistance}
             through(v, id) ==
                 {before[v] + EuclideanLength(
                                  segs[g.neighbours[v][k].segment].geometry) :
                      k \in {j \in 1..Len(g.neighbours[v]) :
                                 g.neighbours[v][j].connector = id}}
             into(id) ==
                 UNION {through(v, id) : v \in reached}
                     \cup (IF before[id] = NoDistance THEN {}
                           ELSE {before[id]})
         IN  Table([id \in DOMAIN g.neighbours |->
                  IF into(id) = {} THEN NoDistance
                  ELSE CHOOSE d \in into(id) : \A e \in into(id) : d <= e])

\* The least cost of any path from #start to #stop in the graph of the last
\* query, NoDistance when #stop cannot be reached.
ShortestCost ==
    LeastCost(QueryMaps, segments,
              Cardinality(DOMAIN QueryMaps.neighbours))[StopId]

RECURSIVE SumOfLengths(_, _)
SumOfLengths(routeSegments, n) ==
    IF n = 0 THEN 0
    ELSE SumOfLengths(routeSegments, n - 1)
             + EuclideanLength(routeSegments[n].segment.geometry)

\* The sum of the full lengths of the host segments of a route.
RouteCost(route) == SumOfLengths(route.segments, Len(route.segments))

-----------------------------------------------------------------------------
(* Statements about Router::find_route.                                     *)

\* C1: whenever find_route returns a route, the sum of the full lengths of
\* the host segments of its route segments is the least cost of any path
\* from #start to #stop in the connector graph of the query.
C1_ShortestPath ==
    (Answered /\ result.kind = "Ok") => RouteCost(result) = ShortestCost

\* C2: on a router with at least one segment find_route returns
\* CouldNotFindRoute exactly when #stop cannot be reached from #start in
\* the connector graph of the query, and a route in every other case.
C2_NoRouteIffUnreachable ==
    (Answered /\ Len(segments) > 0) =>
        /\ (result = Err("CouldNotFindRoute")) <=> (ShortestCost = NoDistance)
        /\ (ShortestCost # NoDistance) => result.kind = "Ok"

C2_Witness_NoRoute ==
    /\ Answered
    /\ Len(segments) > 1
    /\ Len(connectors) > 0
    /\ result = Err("CouldNotFindRoute")

\* C3: find_route on a router without segments returns MissingSegments,
\* whatever connectors were pushed and whatever start and stop are.
C3_MissingSegments ==
    (Answered /\ Len(segments) = 0) => result = Err("MissingSegments")

C3_Witness_EmptyWithConnectors ==
    /\ Answered
    /\ Len(segments) = 0
    /\ Len(connectors) > 0
    /\ query[1] # query[2]
    /\ result = Err("MissingSegments")

\* C4: when start and stop snap to the same segment, the route is exactly
\* one route segment on that segment, from the position of the start point
\* to the position of the stop point.
C4_SameSegment ==
    (/\ Answered
     /\ Len(segments) > 0
     /\ FindNearestIndex(segments, query[1])
            = FindNearestIndex(segments, query[2])) =>
        /\ result.kind = "Ok"
        /\ Len(result.segments) = 1
        /\ result.segments[1] =
               RouteSegment(segments[FindNearestIndex(segments, query[1])],
                            FindNearestPosition(segments, query[1]),
                            FindNearestPosition(segments, query[2]))

\* C5: the stops of every returned route are the start and stop points as
\* the caller gave them, not the points snapped onto the network.
C5_StopsAsSupplied ==
    (Answered /\ result.kind = "Ok") => result.stops = <<query[1], query[2]>>

C5_Witness_StopsOffNetwork ==
    /\ Answered
    /\ result.kind = "Ok"
    /\ result.stops = <<query[1], query[2]>>
    /\ LineStringSquaredDistance(
           segments[FindNearestIndex(segments, query[1])].geometry,
           query[1]) > 0
    /\ LineStringSquaredDistance(
           segments[FindNearestIndex(segments, query[2])].geometry,
           query[2]) > 0


\* The coordinates RouteSegment::get_cutted_geometry returns for the i-th
\* route segment of the last result.
CutOf(i) == GetCuttedGeometry(result.segments[i])

\* C6: in every returned route the cut geometry of each route segment ends
\* where the cut geometry of the next one starts.
C6_RouteContinuity ==
    (Answered /\ result.kind = "Ok") =>
        \A i \in 1..(Len(result.segments) - 1) :
            CutOf(i)[Len(CutOf(i))] = CutOf(i + 1)[1]

\* C9: a call of find_route with the arguments of the call before it, on
\* the same router, returns what that call returned.
C9_Deterministic == (previous # NoResult) => result = previous

C9_Witness_SameRouteTwice ==
    /\ previous # NoResult
    /\ result.kind = "Ok"
    /\ Len(result.segments) >= 3
    /\ result = previous

-----------------------------------------------------------------------------
(* RouteSegment::get_cutted_geometry on its own: RouteSegment::new takes    *)
(* any segment and any pair of positions.                                   *)

\* The polylines that are cut: those of the segment catalogue and the
\* four-vertex line of the unit test, on a smaller scale.
CutCatalogue ==
    Range(SegmentCatalogue)
        \cup {Segment("foo", <<Point(0, 0), Point(3, 0), Point(4, 0),
                               Point(5, 0)>>, <<>>),
              Segment("bar", <<Point(1, 1), Point(1, 5)>>, <<>>)}

\* The positions k/L along a polyline of length L.
Positions(segment) ==
    {Fraction(k, EuclideanLength(segment.geometry)) :
         k \in 0..EuclideanLength(segment.geometry)}

\* RouteSegment::new
CutInit ==
    /\ \E segment \in CutCatalogue :
           \E a \in Positions(segment), b \in Positions(segment) :
               cutSegment = RouteSegment(segment, a, b)
    /\ cutGeometry = NoGeometry
    /\ RouterInit
    /\ CacheIdle
    /\ ParseIdle
    /\ SearchIdle

\* RouteSegment::to_geojson, which cuts the geometry.
CutGeometry ==
    /\ cutGeometry = NoGeometry
    /\ cutGeometry' = GetCuttedGeometry(cutSegment)
    /\ UNCHANGED <<cutSegment, routerVars, cacheVars, parseVars, searchVars>>

CutNext == CutGeometry

CutSpec == CutInit /\ [][CutNext]_vars

\* C7: for bounds a # b, 0 and 1 included, cutting with (a, b) gives the
\* coordinates that cutting with (b, a) gives.
C7_ReverseCutSymmetry ==
    (cutGeometry # NoGeometry /\ cutSegment.start # cutSegment.stop) =>
        cutGeometry = GetCuttedGeometry(
            RouteSegment(cutSegment.segment, cutSegment.stop,
                         cutSegment.start))

\* The vertices of a polyline that line_locate_point places between two
\* positions, in the order of the polyline.
VerticesBetween(ls, lo, hi) ==
    SelectSeq(ls, LAMBDA v : /\ FracLeq(lo, LineLocatePoint(ls, v))
                             /\ FracLeq(LineLocatePoint(ls, v), hi))

\* C20: the cut with bounds (a, b), lo the lesser and hi the greater of
\* them, is the interpolated point at lo if a is not 0, then the vertices
\* placed in [lo, hi], then the interpolated point at hi if b is not 1; on a
\* polyline of two vertices with 0 < a < b < 1 these are the two
\* interpolated points and nothing else.
C20_CutShape ==
    cutGeometry # NoGeometry =>
        LET a == cutSegment.start
            b == cutSegment.stop
            ls == cutSegment.segment.geometry
            lo == IF FracLeq(a, b) THEN a ELSE b
            hi == IF FracLeq(a, b) THEN b ELSE a
            front == IF FracZero(a) THEN 0 ELSE 1
            kept == VerticesBetween(ls, lo, hi)
        IN  /\ Len(cutGeometry) =
                   front + Len(kept) + (IF FracOne(b) THEN 0 ELSE 1)
            /\ ~FracZero(a) => cutGeometry[1] = LineInterpolatePoint(ls, lo)
            /\ SubSeq(cutGeometry, front + 1, front + Len(kept)) = kept
            /\ ~FracOne(b) =>
                   cutGeometry[Len(cutGeometry)] = LineInterpolatePoint(ls, hi)
            /\ (Len(ls) = 2 /\ ~FracZero(a) /\ FracLess(a, b) /\ ~FracOne(b))
                   => cutGeometry = <<LineInterpolatePoint(ls, a),
                                      LineInterpolatePoint(ls, b)>>

\* A polyline of two vertices was cut with 0 < a < b < 1, which left two
\* coordinates.
C20_Witness_TwoVertexCut ==
    /\ cutGeometry # NoGeometry
    /\ Len(cutSegment.segment.geometry) = 2
    /\ ~FracZero(cutSegment.start)
    /\ FracLess(cutSegment.start, cutSegment.stop)
    /\ ~FracOne(cutSegment.stop)
    /\ Len(cutGeometry) = 2

-----------------------------------------------------------------------------
(* tile::backend::cached: CachedTileNetwork over a backend of tiles.        *)

\* LruCache::new(NonZeroUsize::new(27))
LruCapacity == 27

\* point_to_tile_coord(&start, 14)
DefaultZoom == 14

Coord(x, y, z) == [x |-> x, y |-> y, z |-> z]

\* tile::point_to_tile_coord: the tile that covers a point.  The tiles of
\* the model are one unit wide and high.
PointToTileCoord(point, z) == Coord(point[1], point[2], z)

\* The coordinates a query can ask for, and the tiles the backend has: three
\* rows of twelve columns but for one tile of the middle row.  get_tile
\* fails for every other coordinate.
TileGrid == {Coord(x, y, DefaultZoom) : x \in 0..11, y \in 0..5}

BackendTiles ==
    {c \in TileGrid : c.y <= 2} \ {Coord(11, 1, DefaultZoom)}

\* The connector at the west end of the segment of column x.
ColumnConnectorId(x) == ByteOrder[4 + (x % 4)]

\* What Tile::parse pushes for the tile at coord, and whether it then
\* fails.  A tile of the middle row holds the segment that crosses it from
\* west to east and the connector at its west end; the other tiles hold
\* nothing, and one of them does not parse.
TileContent(coord) ==
    IF coord.y = 1
    THEN [connectors |-> <<Connector(ColumnConnectorId(coord.x),
                                     Point(coord.x, 1))>>,
          segments |-> <<Segment(ByteOrder[4 + (coord.x % 4)],
                                 <<Point(coord.x, 1), Point(coord.x + 1, 1)>>,
                                 <<ColumnConnectorId(coord.x),
                                   ColumnConnectorId(coord.x + 1)>>)>>,
          error |-> FALSE]
    ELSE [connectors |-> <<>>, segments |-> <<>>,
          error |-> (coord = Coord(7, 2, DefaultZoom))]

\* The queries made of the network.
NetworkQueries ==
    {<<Point(1, 1), Point(3, 1)>>, <<Point(4, 1), Point(6, 1)>>,
     <<Point(7, 1), Point(6, 1)>>, <<Point(10, 1), Point(10, 1)>>,
     <<Point(0, 1), Point(1, 1)>>, <<Point(4, 0), Point(4, 1)>>,
     <<Point(1, 4), Point(1, 1)>>}

\* `(t - 1)..=(t + 1)` on a u32: at t = 0 the lower bound wraps to
\* 2^32 - 1 (when the build does not check overflow), which lies above the
\* upper bound 1, and the range is empty.
WindowRange(t) == IF t = 0 THEN <<>> ELSE <<t - 1, t, t + 1>>

\* The coordinates the two nested loops of find_route run over, in order.
WindowSeq(tileCoord) ==
    LET xs == WindowRange(tileCoord.x)
        ys == WindowRange(tileCoord.y)
    IN  [i \in 1..(Len(xs) * Len(ys)) |->
            Coord(xs[((i - 1) \div Len(ys)) + 1],
                  ys[((i - 1) % Len(ys)) + 1],
                  tileCoord.z)]

\* The subtraction `t - 1` overflows (and panics, when the build checks).
WindowOverflows(tileCoord) == tileCoord.x = 0 \/ tileCoord.y = 0

\* LruCache::get as far as the order goes: a key that is present becomes
\* the most recently used.
LruTouch(lru, key) ==
    IF key \in Range(lru)
    THEN <<key>> \o SelectSeq(lru, LAMBDA k : k # key)
    ELSE lru

\* A push that never drops an entry.
LruPushWithoutEviction(lru, key) ==
    IF key \in Range(lru) THEN LruTouch(lru, key) ELSE <<key>> \o lru

\* LruCache::push: the key becomes the most recently used; when the cache
\* is full and the key is new, the least recently used entry is dropped.
LruPush(lru, key) ==
    IF key \in Range(lru) THEN LruTouch(lru, key)
    ELSE IF Len(lru) >= LruCapacity
         THEN <<key>> \o SubSeq(lru, 1, LruCapacity - 1)
         ELSE <<key>> \o lru

RECURSIVE ScheduleFetches(_, _, _)
\* The first pair of loops: [tiles, futures] after looking up the window
\* coordinates from the i-th on; a coordinate that is cached is touched, one
\* that is not gets a future.
ScheduleFetches(lru, window, i) ==
    IF i > Len(window) THEN [tiles |-> lru, futures |-> <<>>]
    ELSE IF window[i] \in Range(lru)
         THEN The({ScheduleFetches(touched, window, i + 1) :
                       touched \in {LruTouch(lru, window[i])}})
         ELSE The({[tiles |-> rest.tiles,
                    futures |-> <<window[i]>> \o rest.futures] :
                       rest \in {ScheduleFetches(lru, window, i + 1)}})

RECURSIVE InsertSettled(_, _, _, _)
\* The insert loop without its `tile.is_ok()` test.
InsertSettled(lru, futures, outcomes, i) ==
    IF i > Len(futures) THEN lru
    ELSE The({InsertSettled(pushed, futures, outcomes, i + 1) :
                  pushed \in {LruPush(lru, futures[i])}})

RECURSIVE InsertFetched(_, _, _, _)
\* `for (tile, coord) in tiles`: the tiles that were fetched are pushed, in
\* the order in which the futures were created.
InsertFetched(lru, futures, outcomes, i) ==
    IF i > Len(futures) THEN lru
    ELSE The({InsertFetched(pushed, futures, outcomes, i + 1) :
                  pushed \in {IF outcomes[futures[i]] = "ok"
                              THEN LruPush(lru, futures[i])
                              ELSE lru}})

\* Tile::parse into a router.
ParseTile(router, coord) ==
    [segments |-> router.segments \o TileContent(coord).segments,
     connectors |-> router.connectors \o TileContent(coord).connectors]

RECURSIVE ParseWindowToEnd(_, _, _, _, _)
\* The second pair of loops, were a tile that fails to parse skipped over:
\* every cached tile of the window is parsed and the failure is reported
\* after the last one.
ParseWindowToEnd(lru, router, parsed, window, i) ==
    IF i > Len(window)
    THEN [tiles |-> lru, router |-> router, parsed |-> parsed,
          failed |-> \E j \in 1..Len(parsed) : TileContent(parsed[j]).error]
    ELSE IF window[i] \in Range(lru)
         THEN The({ParseWindowToEnd(touched, pushed, seen, window, i + 1) :
                       touched \in {LruTouch(lru, window[i])},
                       pushed \in {ParseTile(router, window[i])},
                       seen \in {Append(parsed, window[i])}})
         ELSE ParseWindowToEnd(lru, router, parsed, window, i + 1)

RECURSIVE ParseWindow(_, _, _, _, _)
\* The second pair of loops from the i-th window coordinate on: the tiles
\* that are cached are touched and parsed until one fails to parse.
ParseWindow(lru, router, parsed, window, i) ==
    IF i > Len(window)
    THEN [tiles |-> lru, router |-> router, parsed |-> parsed,
          failed |-> FALSE]
    ELSE IF window[i] \in Range(lru)
         THEN IF TileContent(window[i]).error
              THEN [tiles |-> LruTouch(lru, window[i]),
                    router |-> ParseTile(router, window[i]),
                    parsed |-> Append(parsed, window[i]),
                    failed |-> TRUE]
              ELSE The({ParseWindow(touched, pushed, seen, window, i + 1) :
                            touched \in {LruTouch(lru, window[i])},
                            pushed \in {ParseTile(router, window[i])},
                            seen \in {Append(parsed, window[i])}})
         ELSE ParseWindow(lru, router, parsed, window, i + 1)


\* CachedTileNetwork::find_route from `join_all(futures).await` on, once
\* every future has settled: the fetched tiles are inserted in the order of
\* the futures, the window is parsed into the router and the router is asked
\* for the route.  The ways the call can end, as [tiles, router, parsed,
\* result].
Assemble(lru, router, start, stop, window, futures, outcomes) ==
    UNION {UNION {{[tiles |-> pw.tiles, router |-> pw.router,
                    parsed |-> pw.parsed, result |-> r] :
                      r \in (IF pw.failed THEN {Err("TileParsingError")}
                             ELSE FindRoute(pw.router.segments,
                                            pw.router.connectors,
                                            start, stop))} :
                  pw \in {ParseWindow(inserted, router, <<>>, window, 1)}} :
           inserted \in {InsertFetched(lru, futures, outcomes, 1)}}

Finish(lru, router, start, stop, window, futures, outcomes) ==
    \E end \in Assemble(lru, router, start, stop, window, futures, outcomes) :
        /\ tiles' = end.tiles
        /\ netRouter' = end.router
        /\ call' = [pc |-> "idle", start |-> start, stop |-> stop,
                    window |-> window, futures |-> futures,
                    outcomes |-> outcomes, parsed |-> end.parsed,
                    result |-> end.result]

\* CachedTileNetwork::new
CacheInit ==
    /\ tiles = <<>>
    /\ netRouter = NewRouter
    /\ call = [pc |-> "idle"]
    /\ RouterInit
    /\ CutIdle
    /\ ParseIdle
    /\ SearchIdle

\* find_route without `self.router = Router::new()`: the tiles are parsed
\* into the router the call before left.
BeginFindRouteKeepingRouter(start, stop) ==
    \E window \in {WindowSeq(PointToTileCoord(start, DefaultZoom))} :
      \E sched \in {ScheduleFetches(tiles, window, 1)} :
        /\ call.pc = "idle"
        /\ IF Len(sched.futures) = 0
           THEN Finish(sched.tiles, netRouter, start, stop, window, <<>>, <<>>)
           ELSE /\ tiles' = sched.tiles
                /\ netRouter' = netRouter
                /\ call' = [pc |-> "fetching", start |-> start, stop |-> stop,
                            window |-> window, futures |-> sched.futures,
                            outcomes |-> [c \in Range(sched.futures) |->
                                              "pending"]]
        /\ UNCHANGED <<routerVars, cutVars, parseVars, searchVars>>

\* CachedTileNetwork::find_route up to its await: the router is replaced by
\* an empty one and a fetch is scheduled for every window tile that is not
\* cached.  Without a fetch to wait for the call runs to its end.
BeginFindRoute(start, stop) ==
    \E window \in {WindowSeq(PointToTileCoord(start, DefaultZoom))} :
      \E sched \in {ScheduleFetches(tiles, window, 1)} :
        /\ call.pc = "idle"
        /\ IF Len(sched.futures) = 0
           THEN Finish(sched.tiles, NewRouter, start, stop, window, <<>>, <<>>)
           ELSE /\ tiles' = sched.tiles
                /\ netRouter' = NewRouter
                /\ call' = [pc |-> "fetching", start |-> start, stop |-> stop,
                            window |-> window, futures |-> sched.futures,
                            outcomes |-> [c \in Range(sched.futures) |->
                                              "pending"]]
        /\ UNCHANGED <<routerVars, cutVars, parseVars, searchVars>>

\* In a build that checks arithmetic overflow `tile_coord.x - 1` panics at
\* the first column or row, after the router was replaced.
BeginFindRoutePanics(start, stop) ==
    /\ call.pc = "idle"
    /\ WindowOverflows(PointToTileCoord(start, DefaultZoom))
    /\ netRouter' = NewRouter
    /\ call' = [pc |-> "panicked"]
    /\ UNCHANGED <<tiles, routerVars, cutVars, parseVars, searchVars>>

\* Backend::get_tile for one scheduled coordinate completes, were its tile
\* put into the LRU as it arrives.
FetchSettlesInserting(coord, outcome) ==
    /\ call.pc = "fetching"
    /\ coord \in Range(call.futures)
    /\ call.outcomes[coord] = "pending"
    /\ \/ outcome = "ok" /\ coord \in BackendTiles
       \/ outcome = "err" /\ coord \notin BackendTiles
    /\ call' = [call EXCEPT !.outcomes[coord] = outcome]
    /\ tiles' = IF outcome = "ok" THEN LruPush(tiles, coord) ELSE tiles
    /\ UNCHANGED <<netRouter, routerVars, cutVars, parseVars, searchVars>>

\* Backend::get_tile for one scheduled coordinate completes.
FetchSettles(coord, outcome) ==
    /\ call.pc = "fetching"
    /\ coord \in Range(call.futures)
    /\ call.outcomes[coord] = "pending"
    /\ \/ outcome = "ok" /\ coord \in BackendTiles
       \/ outcome = "err" /\ coord \notin BackendTiles
    /\ call' = [call EXCEPT !.outcomes[coord] = outcome]
    /\ UNCHANGED <<tiles, netRouter, routerVars, cutVars, parseVars, searchVars>>

\* join_all is ready: the call continues to its end.
ResumeFindRoute ==
    /\ call.pc = "fetching"
    /\ \A c \in Range(call.futures) : call.outcomes[c] # "pending"
    /\ Finish(tiles, netRouter, call.start, call.stop, call.window,
              call.futures, call.outcomes)
    /\ UNCHANGED <<routerVars, cutVars, parseVars, searchVars>>

\* The future of find_route is dropped while its fetches are in flight, were
\* the tiles that have arrived put into the LRU first.
CancelFindRouteKeepingFetched ==
    /\ call.pc = "fetching"
    /\ call' = [pc |-> "idle",
                dropped |-> Cardinality({c \in Range(call.futures) :
                                            call.outcomes[c] = "ok"})]
    /\ tiles' = InsertFetched(tiles, call.futures, call.outcomes, 1)
    /\ UNCHANGED <<netRouter, routerVars, cutVars, parseVars, searchVars>>

\* The future of find_route is dropped while its fetches are in flight: the
\* tiles that have arrived, `dropped` of them, go with it.
CancelFindRoute ==
    /\ call.pc = "fetching"
    /\ call' = [pc |-> "idle",
                dropped |-> Cardinality({c \in Range(call.futures) :
                                            call.outcomes[c] = "ok"})]
    /\ UNCHANGED <<tiles, netRouter, routerVars, cutVars, parseVars, searchVars>>

CacheNext ==
    \/ \E q \in NetworkQueries : BeginFindRoute(q[1], q[2])
    \/ \E q \in NetworkQueries : BeginFindRoutePanics(q[1], q[2])
    \/ \E coord \in TileGrid, outcome \in {"ok", "err"} :
           FetchSettles(coord, outcome)
    \/ ResumeFindRoute
    \/ CancelFindRoute

CacheSpec == CacheInit /\ [][CacheNext]_vars


\* The last call of the network's find_route has returned.
Returned == call.pc = "idle" /\ "result" \in DOMAIN call

RECURSIVE ContentOf(_, _, _)
\* The segments (field = "segments") or connectors of the window tiles that
\* are cached, in the order of the window, from the i-th coordinate on.
ContentOf(window, field, i) ==
    IF i > Len(window) THEN <<>>
    ELSE (IF window[i] \in Range(tiles) THEN TileContent(window[i])[field]
          ELSE <<>>)
         \o ContentOf(window, field, i + 1)

\* C8: the tile cache never holds more than 27 tiles, whatever calls were
\* made and however their fetches ended.
C8_BoundedLru == Len(tiles) <= LruCapacity

C8_Witness_FullAfterInsert ==
    /\ Returned
    /\ Len(tiles) = LruCapacity
    /\ \E c \in Range(call.futures) : call.outcomes[c] = "ok"
    /\ \E c \in Range(call.futures) : call.outcomes[c] = "err"

\* C10: when a call has run the search, the router holds exactly what the
\* cached tiles of the call's window hold, in the order of the window, and
\* nothing of an earlier call.
C10_RouterRebuilt ==
    (Returned /\ call.result # Err("TileParsingError")) =>
        /\ netRouter.segments = ContentOf(call.window, "segments", 1)
        /\ netRouter.connectors = ContentOf(call.window, "connectors", 1)

C10_Witness_RepeatedWindow ==
    /\ Returned
    /\ call.result.kind = "Ok"
    /\ Len(call.futures) = 0
    /\ Len(netRouter.segments) = 3


\* The window tiles that are cached, in the order of the window.
CachedOfWindow == SelectSeq(call.window, LAMBDA c : c \in Range(tiles))

\* C11: a fetch that failed leaves its tile out of the cache and does not
\* fail the call: the call never answers TileFetchingError, it parses the
\* window tiles that are cached, and when none is cached the answer is the
\* router's MissingSegments.
C11_FailedFetchTolerated ==
    Returned =>
        /\ call.result # Err("TileFetchingError")
        /\ \A c \in Range(call.futures) :
               call.outcomes[c] = "err" => c \notin Range(tiles)
        /\ call.result # Err("TileParsingError") =>
               call.parsed = CachedOfWindow
        /\ CachedOfWindow = <<>> => call.result = Err("MissingSegments")

C11_Witness_RouteDespiteFailure ==
    /\ Returned
    /\ call.result.kind = "Ok"
    /\ \E c \in Range(call.futures) : call.outcomes[c] = "err"

\* The cached tiles of the window that do not parse, by their place among
\* the cached tiles of the window.
UnparsableOfWindow ==
    {i \in 1..Len(CachedOfWindow) : TileContent(CachedOfWindow[i]).error}

\* C12: if a tile of the window that is in the LRU fails to parse, the call
\* returns TileParsingError at once: the tiles parsed are the cached tiles
\* of the window up to the first that fails, the router holds what those
\* tiles pushed and nothing of a later tile, and the result is not one of
\* the search.
C12_ParseErrorAborts ==
    (Returned /\ UnparsableOfWindow # {}) =>
        \E first \in UnparsableOfWindow :
            /\ \A i \in UnparsableOfWindow : first <= i
            /\ call.result = Err("TileParsingError")
            /\ call.parsed = SubSeq(CachedOfWindow, 1, first)
            /\ netRouter.segments = ContentOf(call.parsed, "segments", 1)
            /\ netRouter.connectors = ContentOf(call.parsed, "connectors", 1)

\* A call returned TileParsingError and left cached tiles of its window,
\* one of them with a segment, unparsed.
C12_Witness_LaterTilesUnparsed ==
    /\ Returned
    /\ call.result = Err("TileParsingError")
    /\ Len(call.parsed) < Len(CachedOfWindow)
    /\ Len(netRouter.segments) < Len(ContentOf(call.window, "segments", 1))

\* The coordinates of the three by three window around the tile of a point:
\* the columns tx-1..tx+1 and rows ty-1..ty+1 that exist.
WindowAround(point) ==
    LET t == PointToTileCoord(point, DefaultZoom)
    IN  {Coord(x, y, t.z) : x \in Max(0, t.x - 1)..(t.x + 1),
                            y \in Max(0, t.y - 1)..(t.y + 1)}

\* C13: the fetches a call schedules are exactly the coordinates of the
\* window around the start tile that are absent from the LRU when the call
\* begins, each once.  The LRU holds the same tiles while the fetches are in
\* flight as when the call began, and after a call that scheduled none.
C13_FetchesExactlyAbsent ==
    /\ call.pc = "fetching" =>
           /\ Range(call.futures) = WindowAround(call.start) \ Range(tiles)
           /\ \A i, j \in 1..Len(call.futures) :
                  call.futures[i] = call.futures[j] => i = j
    /\ (Returned /\ call.futures = <<>>) =>
           WindowAround(call.start) \subseteq Range(tiles)

\* C14: while the fetches of a call complete, in whatever order, the LRU is
\* left as it was; and once all have settled the LRU, the router and the
\* result the call ends with are the one outcome that the LRU at the start
\* and the per-tile outcomes determine.
C14_CompletionOrderIrrelevant ==
    [][call.pc = "fetching" =>
          /\ call'.pc = "fetching" => tiles' = tiles /\ netRouter' = netRouter
          /\ Returned' =>
                Assemble(tiles, NewRouter, call.start, call.stop, call.window,
                         call.futures, call'.outcomes)
                    = {[tiles |-> tiles', router |-> netRouter',
                        parsed |-> call'.parsed, result |-> call'.result]}]_vars

\* Fetches are in flight and one scheduled later has settled before one
\* scheduled earlier.
C14_Witness_SettledOutOfOrder ==
    /\ call.pc = "fetching"
    /\ \E i, j \in 1..Len(call.futures) :
           /\ i < j
           /\ call.outcomes[call.futures[i]] = "pending"
           /\ call.outcomes[call.futures[j]] = "ok"
    /\ \E c \in Range(call.futures) : call.outcomes[c] = "err"

\* C15: for every start tile, those of column 0 and row 0 included, a call
\* does not panic and runs both its pairs of loops over exactly the nine
\* coordinates of the columns tx-1..tx+1 and rows ty-1..ty+1.
C15_NineCoordinates ==
    /\ call.pc # "panicked"
    /\ "window" \in DOMAIN call =>
           LET t == PointToTileCoord(call.start, DefaultZoom)
           IN  /\ Len(call.window) = 9
               /\ Range(call.window) =
                      {Coord(x, y, t.z) : x \in (t.x - 1)..(t.x + 1),
                                          y \in (t.y - 1)..(t.y + 1)}

\* C16: in the graph of a query #start is joined to other connectors only
\* by the segment the nearest lookup returned for start, and #stop only by
\* the one it returned for stop, whatever was pushed.
C16_EndpointsOnHostOnly ==
    (Answered /\ segments # <<>>) =>
        \A startIndex \in {FindNearestIndex(segments, query[1])} :
          \A stopIndex \in {FindNearestIndex(segments, query[2])} :
            \A g \in {BuildMaps(segments, connectors, startIndex, stopIndex)} :
              \A id \in DOMAIN g.neighbours :
                \A k \in 1..Len(g.neighbours[id]) :
                  LET edge == g.neighbours[id][k]
                  IN  /\ (id = StartId \/ edge.connector = StartId)
                          => edge.segment = startIndex
                      /\ (id = StopId \/ edge.connector = StopId)
                          => edge.segment = stopIndex

\* The segments with the connector ids that match no pushed connector
\* taken out of their lists.
KnownConnectorsOnly(segs, conns) ==
    [i \in 1..Len(segs) |->
        [segs[i] EXCEPT !.connectors =
            SelectSeq(@, LAMBDA id : \E j \in 1..Len(conns) :
                                         conns[j].id = id)]]

\* A result with the same done to the segments of its route.
OnKnownConnectors(r, conns) ==
    IF r.kind = "Ok"
    THEN [r EXCEPT !.segments =
              [i \in 1..Len(r.segments) |->
                  [r.segments[i] EXCEPT !.segment =
                      KnownConnectorsOnly(<<@>>, conns)[1]]]]
    ELSE r

\* C17: connector ids that segments list and no pushed connector has are
\* dropped: the result of a query is the result of the same query on the
\* router whose segments list the pushed connectors only.
C17_UnknownConnectorsDropped ==
    Answered =>
        OnKnownConnectors(result, connectors)
            \in FindRoute(KnownConnectorsOnly(segments, connectors),
                          connectors, query[1], query[2])

\* A route of two segments or more was returned, one of them on a segment
\* that lists a connector id nobody pushed.
C17_Witness_RouteOverUnknownId ==
    /\ Answered
    /\ result.kind = "Ok"
    /\ Len(result.segments) >= 2
    /\ \E i \in 1..Len(result.segments) :
           KnownConnectorsOnly(<<result.segments[i].segment>>, connectors)[1]
               # result.segments[i].segment

\* Two fractional positions are the same number.
SamePosition(f, g) == f.num * g.den = g.num * f.den

\* C18: in a returned route the first route segment starts at the position
\* of the foot of the start point on the start host segment, the last one
\* stops at the position of the foot of the stop point on the stop host
\* segment, and where two route segments meet, the stop of the one and the
\* start of the next are the positions of one pushed connector's point on
\* their segments.
C18_RoutePositions ==
    (Answered /\ result.kind = "Ok") =>
        \A startPosition \in {FindNearestPosition(segments, query[1])} :
          \A stopPosition \in {FindNearestPosition(segments, query[2])} :
            LET rs == result.segments
            IN  /\ SamePosition(rs[1].start, startPosition)
                /\ SamePosition(rs[Len(rs)].stop, stopPosition)
                /\ \A i \in 1..(Len(rs) - 1) :
                     \E j \in 1..Len(connectors) :
                        /\ SamePosition(
                               rs[i].stop,
                               GetPointPosition(rs[i].segment,
                                                connectors[j].point))
                        /\ SamePosition(
                               rs[i + 1].start,
                               GetPointPosition(rs[i + 1].segment,
                                                connectors[j].point))

\* The squared distance of the i-th segment of the router to a point.
DistanceTo(i, point) == LineStringSquaredDistance(segments[i].geometry, point)

\* C19: find_nearest finds no segment exactly when the router has none;
\* otherwise the segment it returns is as near to the point as any, every
\* segment pushed before it is farther, and the position it returns is that
\* of a point of the segment at the segment's distance from the point.
C19_FindNearest ==
    \A point \in QueryPoints :
      \A nearest \in {FindNearestIndex(segments, point)} :
        /\ nearest = 0 <=> segments = <<>>
        /\ nearest # 0 =>
             /\ nearest \in 1..Len(segments)
             /\ \A j \in 1..Len(segments) :
                    DistanceTo(nearest, point) <= DistanceTo(j, point)
             /\ \A j \in 1..(nearest - 1) :
                    DistanceTo(nearest, point) < DistanceTo(j, point)
             /\ SquaredDistance(
                    GetPositionAsPoint(segments[nearest],
                                       FindNearestPosition(segments, point)),
                    point) = DistanceTo(nearest, point)

\* A query was answered whose start point is as near to a later segment as
\* to the nearest one, and off both.
C19_Witness_TieOffSegment ==
    /\ Answered
    /\ \E i, j \in 1..Len(segments) :
           /\ i < j
           /\ i = FindNearestIndex(segments, query[1])
           /\ DistanceTo(i, query[1]) = DistanceTo(j, query[1])
           /\ DistanceTo(i, query[1]) > 0

\* A call was cancelled and none has begun since.
Cancelled == call.pc = "idle" /\ "dropped" \in DOMAIN call

\* C22: a call that is cancelled while its fetches are in flight leaves in
\* the LRU the coordinates that were there before it: neither its beginning,
\* nor a fetch that settles, nor the cancellation adds or removes one.  The
\* router is empty from the beginning of a call on, and a call that returns,
\* at once after a cancelled one or after its fetches, has in its router
\* what it parsed itself.
C22_CancelLeavesNoTile ==
    [][/\ (call'.pc = "fetching" \/ Cancelled') =>
              Range(tiles') = Range(tiles)
       /\ (call'.pc = "fetching" /\ call.pc # "fetching") =>
              netRouter' = NewRouter
       /\ ((Cancelled \/ call.pc = "fetching") /\ Returned') =>
              /\ (netRouter.segments
                      = ContentOf(call.parsed, "segments", 1))'
              /\ (netRouter.connectors
                      = ContentOf(call.parsed, "connectors", 1))']_vars

\* A call was cancelled after tiles had arrived for it, with other tiles
\* in the LRU.
C22_Witness_CancelledAfterArrival ==
    /\ Cancelled
    /\ call.dropped > 0
    /\ tiles # <<>>

\* The tiles of the window around the start tile that were cached when the
\* call began: a call that scheduled fetches left the others in the LRU, a
\* call that scheduled none left the LRU with the tiles it had.
CachedAtBegin ==
    IF call.futures = <<>>
    THEN WindowAround(call.start) \cap Range(tiles)
    ELSE WindowAround(call.start) \ Range(call.futures)

\* The tiles of the window that the call fetched.
FetchedOfWindow ==
    {c \in Range(call.futures) : call.outcomes[c] = "ok"}

\* C24: when a call returns, every tile of the window around its start tile
\* that was cached when it began or that it fetched is in the LRU, and has
\* been parsed unless a tile failed to parse.
C24_WindowNeverEvicted ==
    Returned =>
        /\ (CachedAtBegin \cup FetchedOfWindow) \subseteq Range(tiles)
        /\ call.result # Err("TileParsingError") =>
               (CachedAtBegin \cup FetchedOfWindow) = Range(call.parsed)

\* C25: a returned route has a route segment; the first is on the segment
\* nearest to start, the last on the segment nearest to stop, and any two
\* in a row are on segments that both list the id of one pushed connector.
C25_WellFormedPath ==
    (Answered /\ result.kind = "Ok") =>
        LET rs == result.segments
        IN  /\ Len(rs) >= 1
            /\ rs[1].segment
                   = segments[FindNearestIndex(segments, query[1])]
            /\ rs[Len(rs)].segment
                   = segments[FindNearestIndex(segments, query[2])]
            /\ \A i \in 1..(Len(rs) - 1) :
                   \E j \in 1..Len(connectors) :
                       /\ connectors[j].id \in Range(rs[i].segment.connectors)
                       /\ connectors[j].id
                              \in Range(rs[i + 1].segment.connectors)

-----------------------------------------------------------------------------
(* tile::backend::pmtiles_mvt_backend: parse_connectors.                    *)

\* let extent: f64 = 4096.0
Extent == 4096

\* At most this many features are in the connectors layer.
MaxFeatures == 3

\* A feature of the layer: the "id" property (NoneId when the feature has
\* none) and the geometry, a kind with points in tile coordinates.
Feature(id, kind, points) ==
    [id |-> id, geometry |-> [kind |-> kind, points |-> points]]

\* The features a layer is made of: two that are well formed, one without
\* id, one whose geometry is a line and one whose multipoint is empty.
FeatureCatalogue ==
    {Feature("a", "MultiPoint", <<Point(0, 0)>>),
     Feature("b", "MultiPoint", <<Point(Extent, Extent), Point(0, 0)>>),
     Feature(NoneId, "MultiPoint", <<Point(0, Extent)>>),
     Feature("c", "LineString", <<Point(0, 0), Point(Extent, 0)>>),
     Feature("d", "MultiPoint", <<>>)}

\* The tile the layer belongs to, and mercantile::bounds of a tile of the
\* unit grid.
LayerTile == Coord(2, 1, DefaultZoom)

Bounds(coord) ==
    [west |-> coord.x, east |-> coord.x + 1,
     north |-> coord.y, south |-> coord.y + 1]

\* bbox.west + point.x() / extent * (bbox.east - bbox.west), and the same
\* from north to south.
LayerPoint(bbox, point) ==
    Point(bbox.west + (point[1] * (bbox.east - bbox.west)) \div Extent,
          bbox.north + (point[2] * (bbox.south - bbox.north)) \div Extent)

RECURSIVE ParseConnectors(_, _, _, _, _)
\* parse_connectors from the i-th feature on, for a router that holds the
\* connectors conns: the connectors it holds at the end and Ok or the
\* error returned.
ParseConnectors(conns, features, bbox, strict, i) ==
    IF i > Len(features) THEN [connectors |-> conns, result |-> "Ok"]
    ELSE LET feature == features[i]
         IN  IF feature.id = NoneId
             THEN [connectors |-> conns, result |-> "InvalidID"]
             ELSE IF \/ feature.geometry.kind # "MultiPoint"
                     \/ Len(feature.geometry.points) = 0
             THEN IF strict
                  THEN [connectors |-> conns, result |-> "InvalidConnector"]
                  ELSE ParseConnectors(conns, features, bbox, strict, i + 1)
             ELSE ParseConnectors(
                      Append(conns,
                             Connector(feature.id,
                                       LayerPoint(bbox,
                                                  feature.geometry.points[1]))),
                      features, bbox, strict, i + 1)

\* The layers of at most MaxFeatures features.
Layers ==
    UNION {[1..n -> FeatureCatalogue] : n \in 0..MaxFeatures}

\* A layer is handed to parse_connectors, strict or not.
ParseInit ==
    /\ \E features \in Layers, strict \in BOOLEAN :
           layer = [pc |-> "ready", features |-> features, strict |-> strict]
    /\ RouterInit
    /\ CacheIdle
    /\ CutIdle
    /\ SearchIdle

\* parse_connectors(router, reader, extent, bbox, strict) on a new router.
ParseLayer ==
    /\ layer.pc = "ready"
    /\ \E end \in {ParseConnectors(NewRouter.connectors, layer.features,
                                   Bounds(LayerTile), layer.strict, 1)} :
           layer' = [pc |-> "done", features |-> layer.features,
                     strict |-> layer.strict,
                     connectors |-> end.connectors, result |-> end.result]
    /\ UNCHANGED <<routerVars, cacheVars, cutVars, searchVars>>

ParseNext == ParseLayer

ParseSpec == ParseInit /\ [][ParseNext]_vars

\* A feature is malformed: it has no id, or its geometry is not a point or
\* has no point.
Malformed(feature) ==
    \/ feature.id = NoneId
    \/ feature.geometry.kind # "MultiPoint"
    \/ Len(feature.geometry.points) = 0

\* C21: a parse that is not strict skips every malformed feature, pushes a
\* connector for each of the others in their order and returns Ok; a strict
\* parse returns an error exactly when a feature is malformed.
C21_LenientSkipsStrictFails ==
    layer.pc = "done" =>
        LET sound == SelectSeq(layer.features, LAMBDA f : ~Malformed(f))
        IN  IF layer.strict
            THEN layer.result # "Ok" <=>
                     \E i \in 1..Len(layer.features) :
                         Malformed(layer.features[i])
            ELSE /\ layer.result = "Ok"
                 /\ Len(layer.connectors) = Len(sound)
                 /\ \A i \in 1..Len(sound) :
                        layer.connectors[i].id = sound[i].id

-----------------------------------------------------------------------------
(* Router::find_route taken one iteration of its loops at a time.           *)

RECURSIVE Picked(_, _, _)
\* The entries of a catalogue at the indexes in picks, from the i-th on, in
\* the order of the catalogue.
Picked(catalogue, picks, i) ==
    IF i > Len(catalogue) THEN <<>>
    ELSE (IF i \in picks THEN <<catalogue[i]>> ELSE <<>>)
             \o Picked(catalogue, picks, i + 1)

\* What can have been pushed of a catalogue: at least least and at most
\* most of its entries.
Pushed(catalogue, least, most) ==
    {Picked(catalogue, picks, 1) :
         picks \in {c \in SUBSET (1..Len(catalogue)) :
                        Cardinality(c) \in least..most}}

\* find_route up to the while loop, on a router that holds segs and conns.
EnterSearch(segs, conns, start, stop) ==
    The({[pc |-> "searching", segs |-> segs, stops |-> <<start, stop>>,
          pointOf |-> ConnectorPoints(segs, conns, startIndex, startPosition,
                                      stopIndex, stopPosition),
          st |-> StartOfSearch(BuildMaps(segs, conns, startIndex, stopIndex)),
          walked |-> <<>>] :
             startIndex \in {FindNearestIndex(segs, start)},
             startPosition \in {FindNearestPosition(segs, start)},
             stopIndex \in {FindNearestIndex(segs, stop)},
             stopPosition \in {FindNearestPosition(segs, stop)}})

\* A router with at least one segment is asked for a route.
SearchInit ==
    /\ \E segs \in Pushed(SegmentCatalogue, 1, MaxSegments),
          conns \in Pushed(ConnectorCatalogue, 0, MaxConnectors),
          start \in QueryPoints, stop \in QueryPoints :
           search = EnterSearch(segs, conns, start, stop)
    /\ RouterInit
    /\ CacheIdle
    /\ CutIdle
    /\ ParseIdle

\* The while loop is left with the connector maps st: without a previous
\* connector of #stop the call returns CouldNotFindRoute, otherwise the way
\* back begins at #stop.
LeaveSearch(st) ==
    IF st.previous_connector[StopId] = NoneId
    THEN [search EXCEPT !.pc = "done", !.st = st]
    ELSE [search EXCEPT !.pc = "walking", !.st = st, !.walked = <<StopId>>]

\* One iteration of `while to_visit.len() > 0`: an entry is popped; #stop
\* ends the loop, any other connector has its neighbours relaxed.
VisitNext ==
    /\ search.pc = "searching"
    /\ Len(search.st.to_visit) > 0
    /\ \E e \in PopChoices(search.st.to_visit) :
         \E rest \in {[search.st EXCEPT
                           !.to_visit = RemoveEntry(search.st.to_visit, e)]} :
             search' =
                 IF e.connector_id = StopId THEN LeaveSearch(rest)
                 ELSE [search EXCEPT !.st =
                          RelaxAll(rest, search.segs, search.pointOf,
                                   e.connector_id,
                                   rest.distance[e.connector_id],
                                   rest.neighbours[e.connector_id], 1)]
    /\ UNCHANGED <<routerVars, cacheVars, cutVars, parseVars>>

\* The while loop ends because to_visit is empty.
QueueEmpty ==
    /\ search.pc = "searching"
    /\ Len(search.st.to_visit) = 0
    /\ search' = LeaveSearch(search.st)
    /\ UNCHANGED <<routerVars, cacheVars, cutVars, parseVars>>

\* One iteration of the `loop` of the way back: current_connector becomes
\* its previous connector, and the loop is left when that one has none.
\* The walk is cut off when it is longer than the connector map has keys.
WayBackStep ==
    /\ search.pc = "walking"
    /\ Len(search.walked) <= Cardinality(DOMAIN search.st.distance)
    /\ \E current \in {search.st.previous_connector[
                           search.walked[Len(search.walked)]]} :
           search' = [search EXCEPT
                          !.walked = Append(@, current),
                          !.pc = IF search.st.previous_connector[current]
                                        = NoneId
                                 THEN "done" ELSE "walking"]
    /\ UNCHANGED <<routerVars, cacheVars, cutVars, parseVars>>

SearchNext == VisitNext \/ QueueEmpty \/ WayBackStep

SearchSpec == SearchInit /\ [][SearchNext]_vars

\* The loops are run as long as they have an iteration to run.
SearchLive == SearchSpec /\ WF_vars(SearchNext)

\* What an iteration of the while loop may do to the connector maps before
\* to make them the maps after: a distance changes only from none to some
\* or to a smaller one, every entry pushed is for a connector whose distance
\* changed, and #start stays at distance 0 without a previous connector.
PushesOnlyOnDecrease(before, after) ==
    /\ \A id \in DOMAIN before.distance :
           after.distance[id] # before.distance[id] =>
               \/ before.distance[id] = NoDistance
               \/ after.distance[id] < before.distance[id]
    /\ \A k \in Max(1, Len(before.to_visit))..Len(after.to_visit) :
           after.distance[after.to_visit[k].connector_id]
               # before.distance[after.to_visit[k].connector_id]
    /\ after.distance[StartId] = 0
    /\ after.previous_connector[StartId] = NoneId

\* The way back so far visits no connector twice, and when it is over it
\* has ended at #start.
WalksToStart(s) ==
    /\ \A i, j \in 1..Len(s.walked) : s.walked[i] = s.walked[j] => i = j
    /\ (s.pc = "done" /\ s.walked # <<>>) =>
           s.walked[Len(s.walked)] = StartId

\* C23: find_route terminates.  Every iteration of the search loop pushes
\* only connectors whose distance it has strictly decreased and leaves
\* #start at distance 0 without a previous connector; the way back from
\* #stop visits no connector twice and ends at #start; and the call comes
\* to its end.
C23_FindRouteTerminates ==
    /\ [][/\ search.pc = "searching" =>
                 PushesOnlyOnDecrease(search.st, search'.st)
          /\ WalksToStart(search')]_vars
    /\ <>(search.pc = "done")

\* The call is over after a way back from #stop over a pushed connector or
\* more to #start.
C23_Witness_WalkedBack ==
    /\ search.pc = "done"
    /\ Len(search.walked) >= 3
    /\ search.walked[Len(search.walked)] = StartId

====
